---- MODULE Spec2Model ----
(***************************************************************************)
(* AORA breathwork app: the session screen's phase sequencer               *)
(* (SessionScreen in components/ControlPanel.tsx), the saved-session       *)
(* prompt (components/SessionAutoSave.tsx) and the start-up check of       *)
(* App.tsx.                                                                *)
(*                                                                         *)
(* Time is Date.now() in milliseconds.  Pattern durations are held in      *)
(* milliseconds (the source holds seconds and multiplies by 1000 where it  *)
(* arms a timeout); timeRemaining is held in milliseconds as well.         *)
(* Timers fire exactly on time and user input arrives on the 100 ms grid   *)
(* of the countdown.                                                       *)
(***************************************************************************)
EXTENDS Integers, Sequences, FiniteSets, TLC

VARIABLES
    \* ---- App (App.tsx) ----
    currentScreen,          \* AppScreen
    customPattern,          \* BreathPattern or NoPattern
    sessionData,            \* SessionData handed to onExit, or NoData
    onboardingCompleted,    \* localStorage 'aora-onboarding-completed' = 'true'
    showSavedSessionPrompt, \* App state
    appPc,                  \* position of the start-up effect
    selectedExercise,       \* Exercise or NoExercise
    history,                \* localStorage 'aora-session-history'
    \* ---- saved-session prompt (SessionAutoSave.tsx) ----
    store,                  \* localStorage 'aora-saved-session'
    savedSession,           \* component state
    showPrompt,             \* component state
    promptPc,               \* "unmounted", "checked" (mount effect ran), "closed"
    \* ---- SessionScreen (ControlPanel.tsx) ----
    pattern,
    currentPhase,
    isActive,
    cycles,
    timeRemaining,
    sessionDuration,
    startTimeRef,
    chains,                 \* the runCycle invocations whose timers are pending
    mountedAt,              \* Date.now() when the screen's effects ran, -1 before
    life,                   \* "none", "rendered", "mounted", "exiting" (kept by
                            \* AnimatePresence while its exit animation plays),
                            \* "unmounted", "unloaded" (page gone)
    exitedAt,               \* Date.now() of handleExit, -1 before
    autoSaveArmedAt,        \* when the pending auto-save interval was armed, -1 if none
    \* ---- environment ----
    now,                    \* Date.now()
    ticksLeft,              \* remaining 100 ms steps of the explored run
    togglesLeft,            \* remaining toggleSession inputs of the explored run
    exitTicks,              \* 100 ms steps explored after handleExit
    eventsLeft,             \* remaining page events (hidden, unload) of the run
    staleTimeouts,          \* pending phase timeouts of phases already ended
    notif,                  \* NotificationManager, NotificationService and
                            \* the browser's notification state
    \* ---- observers (not program state) ----
    activeMs,               \* time spent with isActive = TRUE since mount
    bootStore,              \* the store's content when the app started
    lastCheckNow,           \* Date.now() read by the latest freshness check
    resumedFrom             \* the snapshot handed to App.handleResumeSession

vars == <<currentScreen, customPattern, sessionData, onboardingCompleted,
          showSavedSessionPrompt, appPc, store, savedSession, showPrompt,
          pattern, currentPhase, isActive, cycles, timeRemaining,
          sessionDuration, startTimeRef, chains, mountedAt, now, ticksLeft,
          togglesLeft, activeMs, lastCheckNow, resumedFrom, promptPc,
          bootStore, selectedExercise, history, life, exitedAt,
          autoSaveArmedAt, exitTicks, eventsLeft, staleTimeouts, notif>>

appVars     == <<currentScreen, customPattern, sessionData, onboardingCompleted,
                 showSavedSessionPrompt, appPc, selectedExercise>>
promptVars  == <<store, savedSession, showPrompt, promptPc>>
ghostVars   == <<activeMs, lastCheckNow, resumedFrom, bootStore>>
sessionVars == <<pattern, currentPhase, isActive, cycles, timeRemaining,
                 sessionDuration, startTimeRef, chains, mountedAt, life,
                 exitedAt, autoSaveArmedAt>>
runVars     == <<history, exitTicks, eventsLeft, staleTimeouts, notif>>

\* ------------------------------------------------------------------------
\* Bounds of the exploration
\* ------------------------------------------------------------------------
MaxTicks   == 40    \* 100 ms steps of a run with pause/resume
MaxToggles == 2     \* toggleSession inputs of a run
LongTicks  == 225   \* 100 ms steps of an uninterrupted run

\* ------------------------------------------------------------------------
\* Program constants
\* ------------------------------------------------------------------------
CountdownMs        == 100     \* setInterval(..., 100) in runPhase
DurationIntervalMs == 1000    \* setInterval(..., 1000) of the duration tracker
totalCycles        == 10      \* useState(10)
AutoSaveMs         == 5000    \* setInterval(..., 5000) of the auto-save effect
ExitAnimationMs    == 400     \* transition duration 0.4 of the screen's motion.div

NoPattern  == [none |-> TRUE]
NoData     == [none |-> TRUE]
NoSnapshot == [none |-> TRUE]
NoExercise == [none |-> TRUE]

\* no NotificationManager has been rendered and no reminder is scheduled
NotifIdle  == [idle |-> TRUE]

Corrupt == [corrupt |-> TRUE]    \* a value JSON.parse throws on
Untimed == [untimed |-> TRUE]    \* valid JSON without a timestamp field
IsSnapshot(v) == v # NoSnapshot /\ v # Corrupt /\ v # Untimed

Pattern(i, h, e, p) == [inhale |-> i, hold |-> h, exhale |-> e, pause |-> p]

PhaseOrder == <<"inhale", "hold", "exhale", "pause">>
PhaseIndex(ph) == CHOOSE k \in 1..4 : PhaseOrder[k] = ph

\* Patterns of the runs with pause/resume: within the slider ranges of the
\* control panel (inhale, exhale >= 1 s; hold, pause >= 0; step 0.5 s).
SessionPatterns ==
    { Pattern(1000, h, e, p) : h \in {0, 500}, e \in {1000, 1500}, p \in {0, 500} }

\* Patterns of the uninterrupted runs: Box Breathing 4/4/4/4 and 4-7-8 of the
\* exercise library, and the shortest pattern the sliders allow.
LibraryPatterns ==
    { Pattern(4000, 4000, 4000, 4000), Pattern(4000, 7000, 8000, 0),
      Pattern(1000, 0, 1000, 0) }

Max(a, b) == IF a >= b THEN a ELSE b

\* ------------------------------------------------------------------------
\* runPhase / runCycle
\* ------------------------------------------------------------------------

\* Durations d (multiples of 0.5 s up to 15 s) for which the IEEE-754 double
\* `remaining`, after d/0.1 subtractions of 0.1 from d, is still positive, so
\* that `remaining <= 0` first holds one countdown tick later.
LateCountdown ==
    {500, 1000} \cup { 500 * k : k \in 10..30 }

\* `remaining <= 0` after `ticks` firings of the countdown interval
CountdownDone(d, ticks) ==
    IF d \in LateCountdown THEN ticks * CountdownMs >= d + CountdownMs
                           ELSE ticks * CountdownMs >= d

\* the value passed to setTimeRemaining by the countdown
CountdownShown(d, ticks) == Max(0, d - ticks * CountdownMs)

\* runPhase without its early return for a duration of zero
RunPhaseSkipsNever(duration) == FALSE

\* `if (duration === 0) return Promise.resolve()`
RunPhaseSkips(duration) == duration = 0

\* The first phase at or after position k of the cycle that runPhase does not
\* skip; "done" when runCycle reaches setCycles.
RECURSIVE PhaseFrom(_, _)
PhaseFrom(pat, k) ==
    IF k > 4 THEN "done"
    ELSE IF RunPhaseSkips(pat[PhaseOrder[k]]) THEN PhaseFrom(pat, k + 1)
    ELSE PhaseOrder[k]

\* effect cleanup: clearTimeout(phaseTimeoutRef.current)
Cleanup(cs) ==
    [k \in 1..Len(cs) |-> IF cs[k].ref THEN [cs[k] EXCEPT !.timeout = FALSE]
                                       ELSE cs[k]]

\* phaseTimeoutRef.current = setTimeout(...): the ref leaves every other chain
DropRef(cs) == [k \in 1..Len(cs) |-> [cs[k] EXCEPT !.ref = FALSE]]

NewChain(ph) == [phase |-> ph, ticks |-> 0, timeout |-> TRUE, ref |-> TRUE]

\* The engine state threaded through the callbacks of one step
Engine(ph, tr, cy, cs) ==
    [currentPhase |-> ph, timeRemaining |-> tr, cycles |-> cy, chains |-> cs]

\* runCycle whose first runPhase arms its timers without setTimeRemaining
RunCycleNoCountdown(st) ==
    LET ph == PhaseFrom(pattern, 1)
    IN  IF ph = "done" THEN st
        ELSE Engine(ph, st.timeRemaining, st.cycles,
                    Append(DropRef(st.chains), NewChain(ph)))

\* runCycle() called by the effect: runs the first phase that is not skipped.
\* When runPhase skips all four phases no timer is created and runCycle goes
\* straight on to setCycles (action EmptyCycle).
RunCycle(st) ==
    LET ph == PhaseFrom(pattern, 1)
    IN  IF ph = "done" THEN st
        ELSE Engine(ph, pattern[ph], st.cycles,
                    Append(DropRef(st.chains), NewChain(ph)))

\* The breathing effect re-run after `cycles` changed: the cleanup of the
\* previous run exists only if that run had isActive = true, and
\* `if (!isActive) return` starts nothing while paused.
CyclesEffect(st, active) ==
    IF active THEN RunCycle([st EXCEPT !.chains = Cleanup(st.chains)])
              ELSE st

\* The promise of chain i's phase resolved: runCycle continues in the closure
\* that captured isActive = true, so none of its `if (!isActive) return`
\* fires; it runs the next phase or reaches setCycles(prev => prev + 1).
Resolve(st, i, active) ==
    LET c  == st.chains[i]
        np == PhaseFrom(pattern, PhaseIndex(c.phase) + 1)
    IN  IF np # "done"
        THEN Engine(np, pattern[np], st.cycles,
                    [DropRef(st.chains) EXCEPT ![i] = NewChain(np)])
        ELSE CyclesEffect(Engine(st.currentPhase, st.timeRemaining,
                                 st.cycles + 1,
                                 [st.chains EXCEPT ![i].phase = "done"]),
                          active)

\* One firing of chain i's countdown interval, followed by its phase timeout
\* when that is due.
CountdownTick(st, i, active) ==
    LET c  == st.chains[i]
        d  == pattern[c.phase]
        t  == c.ticks + 1
        s1 == [st EXCEPT !.timeRemaining = CountdownShown(d, t),
                         !.chains[i].ticks = t]
    IN  IF CountdownDone(d, t) \/ (c.timeout /\ t * CountdownMs >= d)
        THEN Resolve(s1, i, active)
        ELSE s1

\* The timers of the chains alive at the start of the step, oldest first
RECURSIVE TickChains(_, _, _, _)
TickChains(st, i, n, active) ==
    IF i > n THEN st
    ELSE TickChains(CountdownTick(st, i, active), i + 1, n, active)

Alive(cs) == SelectSeq(cs, LAMBDA c : c.phase # "done")

\* setSessionDuration(Math.floor((Date.now() - startTimeRef.current) / 1000))
DurationAt(t, start) == (t - start) \div 1000

\* saveSession(pattern, patternName, progress, duration) at time t
saveSession(t, pat, cy, ph, rem, dur) ==
    [timestamp |-> t, pattern |-> pat,
     progress |-> [cyclesCompleted |-> cy, totalCycles |-> totalCycles,
                   timeElapsed |-> dur, currentPhase |-> ph,
                   phaseTimeRemaining |-> rem],
     duration |-> dur]

\* the guard of the three save sites without its conditions
ShouldSaveAlways(active, cy) == TRUE

\* `if (isActive && cycles > 0)` of the auto-save effect and of
\* handleBeforeUnload; handleVisibilityChange adds document.hidden
ShouldSave(active, cy) == active /\ cy > 0

\* The auto-save effect run by a render at time t: the previous interval is
\* cleared, and a new one is armed only under the guard.
AutoSaveEffect(active, cy, t) == IF ShouldSave(active, cy) THEN t ELSE -1

\* ------------------------------------------------------------------------
\* SessionScreen
\* ------------------------------------------------------------------------

\* useState / useRef initial values of a SessionScreen rendered at time t
SessionInitial(pat, t) ==
    [pattern |-> pat, currentPhase |-> "inhale", isActive |-> TRUE,
     cycles |-> 0, timeRemaining |-> 0, sessionDuration |-> 0,
     startTimeRef |-> t]

\* The effects of the first render: the duration interval is armed, the
\* auto-save effect arms nothing (cycles = 0), the page listeners are
\* registered and the breathing effect calls runCycle().
SessionMount ==
    /\ life = "rendered"
    /\ LET st == RunCycle(Engine(currentPhase, timeRemaining, cycles, chains))
       IN  /\ currentPhase' = st.currentPhase
           /\ timeRemaining' = st.timeRemaining
           /\ chains' = st.chains
    /\ mountedAt' = now
    /\ life' = "mounted"
    /\ autoSaveArmedAt' = AutoSaveEffect(isActive, cycles, now)
    /\ UNCHANGED <<pattern, isActive, cycles, sessionDuration, startTimeRef,
                   exitedAt>>
    /\ UNCHANGED <<appVars, promptVars, now, ticksLeft, togglesLeft, ghostVars,
                   runVars>>

\* 100 ms pass: every pending countdown fires; while the screen is mounted
\* the duration interval fires on each full second since mount, an auto-save
\* interval that has been pending for 5 s fires with the values of the render
\* that armed it, and every render re-runs the auto-save effect. AnimatePresence
\* unmounts an exiting screen when its exit animation is over; the cleanups
\* then clear the duration and auto-save intervals and the latest phase
\* timeout, and the state setters of the countdowns that go on firing do
\* nothing.
Tick ==
    /\ life \in {"mounted", "exiting", "unmounted"}
    /\ ticksLeft > 0
    /\ LET t    == now + CountdownMs
           live == life # "unmounted"
           st   == TickChains(Engine(currentPhase, timeRemaining, cycles, chains),
                              1, Len(chains), live /\ isActive)
           dur  == IF live /\ (t - mountedAt) % DurationIntervalMs = 0
                   THEN DurationAt(t, startTimeRef) ELSE sessionDuration
           due  == live /\ autoSaveArmedAt >= 0
                        /\ t - autoSaveArmedAt >= AutoSaveMs
           rendered == live /\ <<st.currentPhase, st.timeRemaining, st.cycles, dur>>
                                 # <<currentPhase, timeRemaining, cycles,
                                      sessionDuration>>
           gone == life = "exiting" /\ t - exitedAt >= ExitAnimationMs
       IN  /\ now' = t
           /\ currentPhase' = IF live THEN st.currentPhase ELSE currentPhase
           /\ timeRemaining' = IF live THEN st.timeRemaining ELSE timeRemaining
           /\ cycles' = IF live THEN st.cycles ELSE cycles
           /\ chains' = IF gone /\ isActive THEN Cleanup(Alive(st.chains))
                                            ELSE Alive(st.chains)
           /\ sessionDuration' = dur
           /\ store' = IF due
                       THEN saveSession(t, pattern, cycles, currentPhase,
                                        timeRemaining, sessionDuration)
                       ELSE store
           /\ autoSaveArmedAt' =
                 IF gone \/ ~live THEN -1
                 ELSE IF rendered THEN AutoSaveEffect(isActive, st.cycles, t)
                 ELSE IF due THEN t
                 ELSE autoSaveArmedAt
           /\ life' = IF gone THEN "unmounted" ELSE life
    /\ ticksLeft' = ticksLeft - 1
    /\ activeMs' = IF life # "unmounted" /\ isActive THEN activeMs + CountdownMs
                                                    ELSE activeMs
    /\ UNCHANGED <<pattern, isActive, startTimeRef, mountedAt, exitedAt>>
    /\ UNCHANGED <<appVars, savedSession, showPrompt, promptPc, togglesLeft,
                   lastCheckNow, resumedFrom, bootStore, runVars>>

\* toggleSession, with the effects that re-run because isActive changed:
\* pausing runs the cleanup of the breathing effect and starts nothing,
\* resuming has no cleanup to run and calls runCycle(); the auto-save effect
\* runs again under its guard.
toggleSession ==
    /\ life = "mounted"
    /\ togglesLeft > 0
    /\ isActive' = ~isActive
    /\ startTimeRef' = IF ~isActive THEN now - sessionDuration * 1000
                                    ELSE startTimeRef
    /\ IF isActive
       THEN /\ chains' = Cleanup(chains)
            /\ UNCHANGED <<currentPhase, timeRemaining>>
       ELSE LET st == RunCycle(Engine(currentPhase, timeRemaining, cycles, chains))
            IN  /\ currentPhase' = st.currentPhase
                /\ timeRemaining' = st.timeRemaining
                /\ chains' = st.chains
    /\ autoSaveArmedAt' = AutoSaveEffect(~isActive, cycles, now)
    /\ togglesLeft' = togglesLeft - 1
    /\ UNCHANGED <<pattern, cycles, sessionDuration, mountedAt, life, exitedAt>>
    /\ UNCHANGED <<appVars, promptVars, now, ticksLeft, ghostVars, runVars>>

\* handleExit: clearSavedSession(), clearInterval of the auto-save interval
\* only, then onExit = App.handleSessionComplete, which stores the summary,
\* removes the snapshot and navigates to the reflection screen. The session
\* screen stays mounted while AnimatePresence plays its exit animation.
handleExit ==
    /\ life = "mounted"
    /\ sessionData' = [duration |-> DurationAt(now, startTimeRef),
                       cycles |-> cycles, pattern |-> pattern]
    /\ store' = NoSnapshot
    /\ currentScreen' = "reflection"
    /\ life' = "exiting"
    /\ exitedAt' = now
    /\ autoSaveArmedAt' = -1
    /\ ticksLeft' = exitTicks
    /\ UNCHANGED <<customPattern, onboardingCompleted, showSavedSessionPrompt,
                   appPc, selectedExercise, savedSession, showPrompt, promptPc>>
    /\ UNCHANGED <<pattern, currentPhase, isActive, cycles, timeRemaining,
                   sessionDuration, startTimeRef, chains, mountedAt>>
    /\ UNCHANGED <<now, togglesLeft, ghostVars, runVars>>

\* a handleVisibilityChange that saves whatever the state of the session
pageHiddenUnguarded ==
    /\ life \in {"mounted", "exiting", "unmounted"}
    /\ eventsLeft > 0
    /\ store' = IF life # "unmounted"
                THEN saveSession(now, pattern, cycles, currentPhase,
                                 timeRemaining, sessionDuration)
                ELSE store
    /\ eventsLeft' = eventsLeft - 1
    /\ UNCHANGED <<appVars, savedSession, showPrompt, promptPc, sessionVars,
                   now, ticksLeft, togglesLeft, ghostVars, history, exitTicks,
                   staleTimeouts, notif>>

\* document 'visibilitychange' with document.hidden: handleVisibilityChange
\* is registered while the screen is mounted, the exit animation included.
pageHidden ==
    /\ life \in {"mounted", "exiting", "unmounted"}
    /\ eventsLeft > 0
    /\ store' = IF life # "unmounted" /\ ShouldSave(isActive, cycles)
                THEN saveSession(now, pattern, cycles, currentPhase,
                                 timeRemaining, sessionDuration)
                ELSE store
    /\ eventsLeft' = eventsLeft - 1
    /\ UNCHANGED <<appVars, savedSession, showPrompt, promptPc, sessionVars,
                   now, ticksLeft, togglesLeft, ghostVars, history, exitTicks,
                   staleTimeouts, notif>>

\* window 'beforeunload': handleBeforeUnload, after which the page and its
\* timers are gone.
beforeUnload ==
    /\ life \in {"mounted", "exiting"}
    /\ eventsLeft > 0
    /\ store' = IF ShouldSave(isActive, cycles)
                THEN saveSession(now, pattern, cycles, currentPhase,
                                 timeRemaining, sessionDuration)
                ELSE store
    /\ life' = "unloaded"
    /\ chains' = <<>>
    /\ autoSaveArmedAt' = -1
    /\ eventsLeft' = eventsLeft - 1
    /\ UNCHANGED <<pattern, currentPhase, isActive, cycles, timeRemaining,
                   sessionDuration, startTimeRef, mountedAt, exitedAt>>
    /\ UNCHANGED <<appVars, savedSession, showPrompt, promptPc, now, ticksLeft,
                   togglesLeft, ghostVars, history, exitTicks,
                   staleTimeouts, notif>>

\* ------------------------------------------------------------------------
\* ReflectionScreen (shown once the session screen has left)
\* ------------------------------------------------------------------------

\* the record handleSaveReflection pushes (exercise name and reflection text
\* are not part of the model)
SessionRecord(t, data) ==
    [date |-> t, duration |-> data.duration, cycles |-> data.cycles,
     pattern |-> data.pattern]

\* Save (enabled once a reflection has been typed): handleSaveReflection
\* appends the record to 'aora-session-history' and calls onComplete =
\* App.handleReflectionComplete.
handleSaveReflection ==
    /\ currentScreen = "reflection"
    /\ life = "unmounted"
    /\ history' = Append(history, SessionRecord(now, sessionData))
    /\ selectedExercise' = NoExercise
    /\ customPattern' = NoPattern
    /\ sessionData' = NoData
    /\ currentScreen' = "home"
    /\ UNCHANGED <<onboardingCompleted, showSavedSessionPrompt, appPc>>
    /\ UNCHANGED <<promptVars, sessionVars, now, ticksLeft, togglesLeft,
                   ghostVars, exitTicks, eventsLeft, staleTimeouts, notif>>

\* Continue and Skip Reflection: onClick={onComplete}, that is
\* App.handleReflectionComplete
handleReflectionComplete ==
    /\ currentScreen = "reflection"
    /\ life = "unmounted"
    /\ selectedExercise' = NoExercise
    /\ customPattern' = NoPattern
    /\ sessionData' = NoData
    /\ currentScreen' = "home"
    /\ UNCHANGED <<onboardingCompleted, showSavedSessionPrompt, appPc>>
    /\ UNCHANGED <<promptVars, sessionVars, now, ticksLeft, togglesLeft,
                   ghostVars, runVars>>

\* ------------------------------------------------------------------------
\* Specifications of a session
\* ------------------------------------------------------------------------

SessionStart(pats, ticks, toggles, after, events) ==
    /\ currentScreen = "session"
    /\ selectedExercise = NoExercise
    /\ history = <<>>
    /\ life = "rendered"
    /\ exitedAt = -1
    /\ autoSaveArmedAt = -1
    /\ exitTicks = after
    /\ staleTimeouts = 0
    /\ notif = NotifIdle
    /\ eventsLeft = events
    /\ customPattern \in pats
    /\ sessionData = NoData
    /\ onboardingCompleted = TRUE
    /\ showSavedSessionPrompt = FALSE
    /\ appPc = "done"
    /\ store = NoSnapshot
    /\ savedSession = NoSnapshot
    /\ showPrompt = FALSE
    /\ promptPc = "unmounted"
    /\ bootStore = NoSnapshot
    /\ now = 0
    /\ LET r == SessionInitial(customPattern, now)
       IN  /\ pattern = r.pattern
           /\ currentPhase = r.currentPhase
           /\ isActive = r.isActive
           /\ cycles = r.cycles
           /\ timeRemaining = r.timeRemaining
           /\ sessionDuration = r.sessionDuration
           /\ startTimeRef = r.startTimeRef
    /\ chains = <<>>
    /\ mountedAt = -1
    /\ ticksLeft = ticks
    /\ togglesLeft = toggles
    /\ activeMs = 0
    /\ lastCheckNow = -1
    /\ resumedFrom = NoSnapshot

\* a session with pause/resume
Init == SessionStart(SessionPatterns, MaxTicks, MaxToggles, 0, 0)
Next == SessionMount \/ Tick \/ toggleSession \/ handleExit
Spec == Init /\ [][Next]_vars

\* a session that is left: page events, exit, the exit animation and the
\* reflection screen
ExitRunTicks  == 24   \* 100 ms steps before the exit
ExitToggles   == 1    \* toggleSession inputs before the exit
PostExitTicks == 6    \* 100 ms steps after handleExit
MaxEvents     == 1    \* page events (hidden, unload) of a run

ExitPatterns == { Pattern(1000, 0, 1000, 0), Pattern(1000, 500, 1000, 0) }

InitExit == SessionStart(ExitPatterns, ExitRunTicks, ExitToggles,
                         PostExitTicks, MaxEvents)
NextExit ==
    \/ SessionMount
    \/ Tick
    \/ toggleSession
    \/ pageHidden
    \/ beforeUnload
    \/ handleExit
    \/ handleSaveReflection
    \/ handleReflectionComplete
SpecExit == InitExit /\ [][NextExit]_vars

\* an uninterrupted session
InitLong == SessionStart(LibraryPatterns, LongTicks, 0, 0, 0)
NextLong == SessionMount \/ Tick \/ handleExit
SpecLong == InitLong /\ [][NextLong]_vars

\* ------------------------------------------------------------------------
\* The two timers of runPhase, fired one by one
\* ------------------------------------------------------------------------
\* Tick fires the timers of a step in a fixed order. Here the countdown
\* interval and the phase timeout of an uninterrupted session are separate
\* actions: the timeout, due d ms after the phase began, fires before or after
\* the countdown firing that is due at the same instant, or up to one
\* countdown period late.
RaceTicks == 45   \* 100 ms steps of such a run

RacePatterns == { Pattern(1000, 0, 1500, 0), Pattern(1500, 500, 2000, 500) }

\* State after a step of the race that ends at time t with engine state st
RaceStep(t, st) ==
    LET dur == IF t # now /\ (t - mountedAt) % DurationIntervalMs = 0
               THEN DurationAt(t, startTimeRef) ELSE sessionDuration
        due == autoSaveArmedAt >= 0 /\ t - autoSaveArmedAt >= AutoSaveMs
        rendered == <<st.currentPhase, st.timeRemaining, st.cycles, dur>>
                      # <<currentPhase, timeRemaining, cycles, sessionDuration>>
    IN  /\ now' = t
        /\ currentPhase' = st.currentPhase
        /\ timeRemaining' = st.timeRemaining
        /\ cycles' = st.cycles
        /\ chains' = Alive(st.chains)
        /\ sessionDuration' = dur
        /\ store' = IF due
                    THEN saveSession(t, pattern, cycles, currentPhase,
                                     timeRemaining, sessionDuration)
                    ELSE store
        /\ autoSaveArmedAt' =
              IF rendered THEN AutoSaveEffect(isActive, st.cycles, t)
              ELSE IF due THEN t
              ELSE autoSaveArmedAt
        /\ ticksLeft' = IF t # now THEN ticksLeft - 1 ELSE ticksLeft
        /\ activeMs' = activeMs + (t - now)
        /\ UNCHANGED <<pattern, isActive, startTimeRef, mountedAt, life,
                       exitedAt>>
        /\ UNCHANGED <<appVars, savedSession, showPrompt, promptPc,
                       togglesLeft, lastCheckNow, resumedFrom, bootStore,
                       history, exitTicks, eventsLeft, notif>>

\* The countdown interval fires: setTimeRemaining, and on `remaining <= 0`
\* clearInterval(countdown) and resolve(). The phase timeout, if it has not
\* fired, stays pending; the cleanup that follows setCycles clears it when it
\* is the one in phaseTimeoutRef.
RaceCountdown ==
    /\ life = "mounted"
    /\ isActive
    /\ ticksLeft > 0
    /\ Len(chains) = 1
    /\ LET c  == chains[1]
           d  == pattern[c.phase]
           t  == c.ticks + 1
           s1 == [Engine(currentPhase, timeRemaining, cycles, chains)
                     EXCEPT !.timeRemaining = CountdownShown(d, t),
                            !.chains[1].ticks = t]
           np == PhaseFrom(pattern, PhaseIndex(c.phase) + 1)
       IN  /\ c.timeout => c.ticks * CountdownMs <= d
           /\ IF CountdownDone(d, t)
              THEN /\ RaceStep(now + CountdownMs, Resolve(s1, 1, isActive))
                   /\ staleTimeouts' = IF c.timeout /\ np # "done"
                                       THEN staleTimeouts + 1
                                       ELSE staleTimeouts
              ELSE /\ RaceStep(now + CountdownMs, s1)
                   /\ UNCHANGED staleTimeouts

\* The phase timeout fires d ms after the phase began, or later:
\* clearInterval(countdown) and resolve().
RaceTimeout ==
    /\ life = "mounted"
    /\ isActive
    /\ Len(chains) = 1
    /\ chains[1].timeout
    /\ LET c == chains[1]
           d == pattern[c.phase]
           t == now + Max(0, d - c.ticks * CountdownMs)
       IN  /\ (c.ticks + 1) * CountdownMs >= d
           /\ t # now => ticksLeft > 0
           /\ RaceStep(t, Resolve(Engine(currentPhase, timeRemaining, cycles,
                                         chains), 1, isActive))
    /\ UNCHANGED staleTimeouts

\* a late timeout whose resolve() runs the continuation of runCycle again
RaceStaleTimeoutResolves ==
    /\ life = "mounted"
    /\ staleTimeouts > 0
    /\ Len(chains) = 1
    /\ staleTimeouts' = staleTimeouts - 1
    /\ RaceStep(now, Resolve(Engine(currentPhase, timeRemaining, cycles, chains),
                             1, isActive))

\* The timeout of a phase that the countdown has already ended fires:
\* clearInterval of an interval that is cleared and resolve() of a promise
\* that is settled do nothing.
RaceStaleTimeout ==
    /\ life = "mounted"
    /\ staleTimeouts > 0
    /\ Len(chains) = 1
    /\ staleTimeouts' = staleTimeouts - 1
    /\ RaceStep(now, Engine(currentPhase, timeRemaining, cycles, chains))

InitRace == SessionStart(RacePatterns, RaceTicks, 0, 0, 0)
NextRace == SessionMount \/ RaceCountdown \/ RaceTimeout \/ RaceStaleTimeout
SpecRace == InitRace /\ [][NextRace]_vars

\* ------------------------------------------------------------------------
\* App start: the saved-session check and the resume prompt
\* ------------------------------------------------------------------------
MaxRenderDelay == 2   \* ms between App's check and the prompt's mount effect
MaxSavedCycles == 2   \* cyclesCompleted of the snapshots found at start
StartTicks     == 3   \* 100 ms steps of the session entered by Resume

MsPerHour       == 3600000   \* 1000 * 60 * 60
FreshHours      == 24        \* hoursSinceLastSession < 24
CheckDelayMs    == 1000      \* setTimeout(..., 1000) of App's effect
NavigateDelayMs == 300       \* setTimeout(..., 300) of navigateToScreen
BootNow         == 2 * FreshHours * MsPerHour   \* Date.now() when the app is opened


\* the freshness test with <= in place of <
IsFreshInclusive(t, timestamp) == (t - timestamp) <= FreshHours * MsPerHour

\* (Date.now() - session.timestamp) / (1000 * 60 * 60) < 24: the quotient of
\* an integer by 3600000 is below 24 exactly when the integer is below
\* 24 * 3600000.
IsFresh(t, timestamp) == (t - timestamp) < FreshHours * MsPerHour

\* Ages, at App's check, of the snapshots found at start
SnapshotAges ==
    {0, MsPerHour, FreshHours * MsPerHour - 2, FreshHours * MsPerHour - 1,
     FreshHours * MsPerHour, FreshHours * MsPerHour + 1, 25 * MsPerHour}

CycleMs(pat) == pat.inhale + pat.hold + pat.exhale + pat.pause

\* time from the start of a cycle to the start of phase k
RECURSIVE PhaseOffset(_, _)
PhaseOffset(pat, k) ==
    IF k = 1 THEN 0 ELSE PhaseOffset(pat, k - 1) + pat[PhaseOrder[k - 1]]

\* Snapshots an earlier session left behind: cycles > 0, a phase of the
\* pattern that is not skipped, and the elapsed seconds that go with them.
StoredSnapshots ==
    { saveSession(BootNow + CheckDelayMs - age, pat, cy, ph, rem,
                  (cy * CycleMs(pat) + PhaseOffset(pat, PhaseIndex(ph))
                      + (pat[ph] - rem)) \div 1000) :
        age \in SnapshotAges,
        pat \in {Pattern(4000, 4000, 4000, 4000), Pattern(4000, 7000, 8000, 0)},
        cy \in 1..MaxSavedCycles,
        ph \in {"inhale", "hold", "exhale"},
        rem \in {4000, 2500} }

\* App's mount effect up to the setTimeout
AppMount ==
    /\ appPc = "mount"
    /\ IF onboardingCompleted
       THEN currentScreen' = "home" /\ appPc' = "timer"
       ELSE currentScreen' = currentScreen /\ appPc' = "done"
    /\ UNCHANGED <<customPattern, sessionData, onboardingCompleted,
                   showSavedSessionPrompt, selectedExercise>>
    /\ UNCHANGED <<promptVars, sessionVars, now, ticksLeft, togglesLeft,
                   ghostVars, runVars>>

\* The timeout of App's mount effect, one second later
AppSavedSessionCheck ==
    /\ appPc = "timer"
    /\ now' = BootNow + CheckDelayMs
    /\ appPc' = "done"
    /\ IF store = NoSnapshot
       THEN UNCHANGED <<showSavedSessionPrompt, lastCheckNow>>
       ELSE IF store = Corrupt
       THEN UNCHANGED <<showSavedSessionPrompt, lastCheckNow>>
       ELSE IF store = Untimed
       THEN UNCHANGED <<showSavedSessionPrompt, lastCheckNow>>
       ELSE /\ lastCheckNow' = now'
            /\ showSavedSessionPrompt' =
                 IF IsFresh(now', store.timestamp) THEN TRUE
                 ELSE showSavedSessionPrompt
    /\ UNCHANGED <<currentScreen, customPattern, sessionData,
                   onboardingCompleted, selectedExercise>>
    /\ UNCHANGED <<promptVars, sessionVars, ticksLeft, togglesLeft, activeMs,
                   resumedFrom, bootStore, runVars>>

\* <SessionAutoSave> is rendered because showSavedSessionPrompt is true; its
\* mount effect runs checkForSavedSession.
checkForSavedSession ==
    /\ showSavedSessionPrompt
    /\ promptPc = "unmounted"
    /\ \E delay \in 0..MaxRenderDelay :
         /\ now' = now + delay
         /\ IF store = NoSnapshot
            THEN UNCHANGED <<store, savedSession, showPrompt, lastCheckNow>>
            ELSE IF store \in {Corrupt, Untimed}
            THEN /\ store' = NoSnapshot
                 /\ savedSession' = NoSnapshot
                 /\ UNCHANGED <<showPrompt, lastCheckNow>>
            ELSE /\ lastCheckNow' = now'
                 /\ IF IsFresh(now', store.timestamp)
                    THEN /\ savedSession' = store
                         /\ showPrompt' = TRUE
                         /\ UNCHANGED store
                    ELSE /\ store' = NoSnapshot
                         /\ savedSession' = NoSnapshot
                         /\ UNCHANGED showPrompt
    /\ promptPc' = "checked"
    /\ UNCHANGED <<appVars, sessionVars, ticksLeft, togglesLeft, activeMs,
                   resumedFrom, bootStore, runVars>>

\* a clearSavedSession that leaves the key in the store
clearSavedSessionKeeps(stored) == stored

\* clearSavedSession: localStorage.removeItem('aora-saved-session')
clearSavedSession(stored) == NoSnapshot

\* the prompt is on screen
Offered == showSavedSessionPrompt /\ showPrompt /\ savedSession # NoSnapshot

\* Resume Session: SessionAutoSave.handleResumeSession calls
\* App.handleResumeSession and clearSavedSession; navigateToScreen('session')
\* renders a new SessionScreen 300 ms later.
handleResumeSession ==
    /\ Offered
    /\ resumedFrom' = savedSession
    /\ customPattern' = savedSession.pattern
    /\ showSavedSessionPrompt' = FALSE
    /\ store' = clearSavedSession(store)
    /\ savedSession' = NoSnapshot
    /\ showPrompt' = FALSE
    /\ promptPc' = "closed"
    /\ now' = now + NavigateDelayMs
    /\ currentScreen' = "session"
    /\ LET r == SessionInitial(savedSession.pattern, now + NavigateDelayMs)
       IN  /\ pattern' = r.pattern
           /\ currentPhase' = r.currentPhase
           /\ isActive' = r.isActive
           /\ cycles' = r.cycles
           /\ timeRemaining' = r.timeRemaining
           /\ sessionDuration' = r.sessionDuration
           /\ startTimeRef' = r.startTimeRef
    /\ chains' = <<>>
    /\ mountedAt' = -1
    /\ life' = "rendered"
    /\ exitedAt' = -1
    /\ autoSaveArmedAt' = -1
    /\ selectedExercise' = NoExercise
    /\ UNCHANGED <<sessionData, onboardingCompleted, appPc, ticksLeft,
                   togglesLeft, activeMs, lastCheckNow, bootStore, runVars>>

\* A click on a navigating control while no earlier timer is due within the
\* 300 ms of navigateToScreen
CanNavigate ==
    /\ appPc # "mount"
    /\ appPc = "timer" => now + NavigateDelayMs <= BootNow + CheckDelayMs
    /\ ~(showSavedSessionPrompt /\ promptPc = "unmounted")

\* exercises of the library screen
LibraryExercises ==
    { [pattern |-> Pattern(4000, 4000, 4000, 4000)],
      [pattern |-> Pattern(4000, 7000, 8000, 0)] }

\* HomeScreen onStartPractice: navigateToScreen('library')
handleStartPractice ==
    /\ currentScreen = "home"
    /\ CanNavigate
    /\ currentScreen' = "library"
    /\ now' = now + NavigateDelayMs
    /\ UNCHANGED <<customPattern, sessionData, onboardingCompleted,
                   showSavedSessionPrompt, appPc, selectedExercise>>
    /\ UNCHANGED <<promptVars, sessionVars, ticksLeft, togglesLeft, ghostVars,
                   runVars>>

\* UpdatedExerciseLibrary onSelectExercise: setSelectedExercise(exercise),
\* navigateToScreen('control')
handleSelectExercise ==
    /\ currentScreen = "library"
    /\ CanNavigate
    /\ \E exercise \in LibraryExercises : selectedExercise' = exercise
    /\ currentScreen' = "control"
    /\ now' = now + NavigateDelayMs
    /\ UNCHANGED <<customPattern, sessionData, onboardingCompleted,
                   showSavedSessionPrompt, appPc>>
    /\ UNCHANGED <<promptVars, sessionVars, ticksLeft, togglesLeft, ghostVars,
                   runVars>>

\* a dismissal that also sends the App back to the home screen
handleDismissToHome ==
    /\ Offered
    /\ store' = NoSnapshot
    /\ savedSession' = NoSnapshot
    /\ showPrompt' = FALSE
    /\ showSavedSessionPrompt' = FALSE
    /\ promptPc' = "closed"
    /\ selectedExercise' = NoExercise
    /\ currentScreen' = "home"
    /\ UNCHANGED <<customPattern, sessionData, onboardingCompleted, appPc>>
    /\ UNCHANGED <<sessionVars, now, ticksLeft, togglesLeft, ghostVars, runVars>>

\* Start Fresh / close: SessionAutoSave.handleDismiss, then
\* App.handleDismissSavedSession
handleDismiss ==
    /\ Offered
    /\ store' = NoSnapshot
    /\ savedSession' = NoSnapshot
    /\ showPrompt' = FALSE
    /\ showSavedSessionPrompt' = FALSE
    /\ promptPc' = "closed"
    /\ UNCHANGED <<currentScreen, customPattern, sessionData,
                   onboardingCompleted, appPc, selectedExercise>>
    /\ UNCHANGED <<sessionVars, now, ticksLeft, togglesLeft, ghostVars, runVars>>

InitStart ==
    /\ currentScreen = "onboarding"
    /\ customPattern = NoPattern
    /\ sessionData = NoData
    /\ onboardingCompleted \in BOOLEAN
    /\ showSavedSessionPrompt = FALSE
    /\ appPc = "mount"
    /\ store \in StoredSnapshots \cup {NoSnapshot, Corrupt, Untimed}
    /\ savedSession = NoSnapshot
    /\ showPrompt = FALSE
    /\ promptPc = "unmounted"
    /\ now = BootNow
    /\ pattern = NoPattern
    /\ currentPhase = "inhale"
    /\ isActive = TRUE
    /\ cycles = 0
    /\ timeRemaining = 0
    /\ sessionDuration = 0
    /\ startTimeRef = 0
    /\ chains = <<>>
    /\ mountedAt = -1
    /\ selectedExercise = NoExercise
    /\ history = <<>>
    /\ life = "none"
    /\ exitedAt = -1
    /\ autoSaveArmedAt = -1
    /\ exitTicks = 0
    /\ staleTimeouts = 0
    /\ notif = NotifIdle
    /\ eventsLeft = 0
    /\ ticksLeft = StartTicks
    /\ togglesLeft = 0
    /\ activeMs = 0
    /\ bootStore = store
    /\ lastCheckNow = -1
    /\ resumedFrom = NoSnapshot

NextStart ==
    \/ AppMount
    \/ AppSavedSessionCheck
    \/ checkForSavedSession
    \/ handleStartPractice
    \/ handleSelectExercise
    \/ handleResumeSession
    \/ handleDismiss
    \/ SessionMount
    \/ Tick
    \/ handleExit

SpecStart == InitStart /\ [][NextStart]_vars

\* ------------------------------------------------------------------------
\* A session started from the control panel with a stored custom exercise
\* ------------------------------------------------------------------------
MaxSpin      == 12   \* cycles counted by runs of runCycle that create no timer
InvalidTicks == 8    \* 100 ms steps of such a session

\* Custom exercises are read from 'aora-custom-exercises' as they are stored;
\* this one has four durations of zero.
InvalidExercises == { [pattern |-> Pattern(0, 0, 0, 0)] }

\* Start Session on the control panel: onStartSession(pattern, presetName)
\* with the panel's pattern state, which is initialPattern =
\* selectedExercise.pattern; App.handleStartSession stores it as customPattern
\* and navigates to the session screen, rendered 300 ms later.
handleStartSession ==
    /\ currentScreen = "control"
    /\ selectedExercise # NoExercise
    /\ life = "none"
    /\ customPattern' = selectedExercise.pattern
    /\ currentScreen' = "session"
    /\ now' = now + NavigateDelayMs
    /\ LET r == SessionInitial(selectedExercise.pattern, now + NavigateDelayMs)
       IN  /\ pattern' = r.pattern
           /\ currentPhase' = r.currentPhase
           /\ isActive' = r.isActive
           /\ cycles' = r.cycles
           /\ timeRemaining' = r.timeRemaining
           /\ sessionDuration' = r.sessionDuration
           /\ startTimeRef' = r.startTimeRef
    /\ chains' = <<>>
    /\ mountedAt' = -1
    /\ life' = "rendered"
    /\ exitedAt' = -1
    /\ autoSaveArmedAt' = -1
    /\ UNCHANGED <<sessionData, onboardingCompleted, showSavedSessionPrompt,
                   appPc, selectedExercise>>
    /\ UNCHANGED <<promptVars, ticksLeft, togglesLeft, ghostVars, runVars>>

\* One pass of runCycle in which runPhase skips all four phases: no timer is
\* created and setCycles(prev => prev + 1) follows at once; the new value of
\* cycles re-runs the breathing effect, which calls runCycle again.
EmptyCycle ==
    /\ life \in {"mounted", "exiting"}
    /\ isActive
    /\ PhaseFrom(pattern, 1) = "done"
    /\ cycles < MaxSpin
    /\ cycles' = cycles + 1
    /\ autoSaveArmedAt' = AutoSaveEffect(isActive, cycles + 1, now)
    /\ UNCHANGED <<pattern, currentPhase, isActive, timeRemaining,
                   sessionDuration, startTimeRef, chains, mountedAt, life,
                   exitedAt>>
    /\ UNCHANGED <<appVars, promptVars, now, ticksLeft, togglesLeft, ghostVars,
                   runVars>>

InitInvalid ==
    /\ currentScreen = "control"
    /\ customPattern = NoPattern
    /\ selectedExercise \in InvalidExercises
    /\ sessionData = NoData
    /\ onboardingCompleted = TRUE
    /\ showSavedSessionPrompt = FALSE
    /\ appPc = "done"
    /\ store = NoSnapshot
    /\ savedSession = NoSnapshot
    /\ showPrompt = FALSE
    /\ promptPc = "unmounted"
    /\ now = 0
    /\ pattern = NoPattern
    /\ currentPhase = "inhale"
    /\ isActive = TRUE
    /\ cycles = 0
    /\ timeRemaining = 0
    /\ sessionDuration = 0
    /\ startTimeRef = 0
    /\ chains = <<>>
    /\ mountedAt = -1
    /\ history = <<>>
    /\ life = "none"
    /\ exitedAt = -1
    /\ autoSaveArmedAt = -1
    /\ exitTicks = 0
    /\ staleTimeouts = 0
    /\ notif = NotifIdle
    /\ eventsLeft = 0
    /\ ticksLeft = InvalidTicks
    /\ togglesLeft = ExitToggles
    /\ activeMs = 0
    /\ bootStore = NoSnapshot
    /\ lastCheckNow = -1
    /\ resumedFrom = NoSnapshot

NextInvalid ==
    \/ handleStartSession
    \/ SessionMount
    \/ EmptyCycle
    \/ Tick
    \/ toggleSession
    \/ handleExit

SpecInvalid == InitInvalid /\ [][NextInvalid]_vars

\* ------------------------------------------------------------------------
\* Quiet hours: NotificationService.isQuietHours and
\* NotificationManager.shouldShowNotification
\* ------------------------------------------------------------------------
MaxClockSteps == 2   \* minutes the clock advances in a run

\* everything outside the notification components, on the settings screen
\* with no session
SettingsScreenIdle ==
    /\ currentScreen = "settings"
    /\ customPattern = NoPattern
    /\ selectedExercise = NoExercise
    /\ sessionData = NoData
    /\ onboardingCompleted = TRUE
    /\ showSavedSessionPrompt = FALSE
    /\ appPc = "done"
    /\ store = NoSnapshot
    /\ savedSession = NoSnapshot
    /\ showPrompt = FALSE
    /\ promptPc = "unmounted"
    /\ now = 0
    /\ pattern = NoPattern
    /\ currentPhase = "inhale"
    /\ isActive = TRUE
    /\ cycles = 0
    /\ timeRemaining = 0
    /\ sessionDuration = 0
    /\ startTimeRef = 0
    /\ chains = <<>>
    /\ mountedAt = -1
    /\ history = <<>>
    /\ life = "none"
    /\ exitedAt = -1
    /\ autoSaveArmedAt = -1
    /\ exitTicks = 0
    /\ eventsLeft = 0
    /\ staleTimeouts = 0
    /\ ticksLeft = 0
    /\ togglesLeft = 0
    /\ activeMs = 0
    /\ bootStore = NoSnapshot
    /\ lastCheckNow = -1
    /\ resumedFrom = NoSnapshot

nonNotifVars == <<appVars, promptVars, sessionVars, now, ticksLeft, togglesLeft,
                  ghostVars, history, exitTicks, eventsLeft, staleTimeouts>>

\* Strings are sequences of one-character strings.
DigitChars == <<"0", "1", "2", "3", "4", "5", "6", "7", "8", "9">>
IsDigit(ch) == \E n \in 1..10 : DigitChars[n] = ch
DigitValue(ch) == (CHOOSE n \in 1..10 : DigitChars[n] = ch) - 1

\* the value of an <input type="time">: "HH:MM"
TimeString(h, m) ==
    <<DigitChars[(h \div 10) + 1], DigitChars[(h % 10) + 1], ":",
      DigitChars[(m \div 10) + 1], DigitChars[(m % 10) + 1]>>

\* str.replace(':', ''): the first occurrence is removed
RECURSIVE ReplaceColon(_)
ReplaceColon(str) ==
    IF str = <<>> THEN <<>>
    ELSE IF Head(str) = ":" THEN Tail(str)
    ELSE <<Head(str)>> \o ReplaceColon(Tail(str))

NaN == -1   \* no number of the model is negative

\* parseInt: the decimal value of the leading digits, NaN when there is none
RECURSIVE ParseDigits(_, _)
ParseDigits(str, acc) ==
    IF str = <<>> \/ ~IsDigit(Head(str)) THEN acc
    ELSE ParseDigits(Tail(str), 10 * acc + DigitValue(Head(str)))

parseInt(str) ==
    IF str = <<>> \/ ~IsDigit(Head(str)) THEN NaN ELSE ParseDigits(str, 0)

\* comparisons of JavaScript numbers: false when an operand is NaN
Lt(a, b) == a # NaN /\ b # NaN /\ a < b
Gt(a, b) == a # NaN /\ b # NaN /\ a > b
Le(a, b) == a # NaN /\ b # NaN /\ a <= b
Ge(a, b) == a # NaN /\ b # NaN /\ a >= b

\* now.getHours() * 100 + now.getMinutes()
CurrentTime(clock) == clock.h * 100 + clock.m

\* NotificationService.isQuietHours(quietHours) at wall-clock time clock
isQuietHours(quietHours, clock) ==
    IF ~quietHours.enabled THEN FALSE
    ELSE LET currentTime == CurrentTime(clock)
             startTime == parseInt(ReplaceColon(quietHours.start))
             endTime == parseInt(ReplaceColon(quietHours.end))
         IN  IF Gt(startTime, endTime)
             THEN Ge(currentTime, startTime) \/ Le(currentTime, endTime)
             ELSE Ge(currentTime, startTime) /\ Le(currentTime, endTime)

\* shouldShowNotification that also shows in the boundary minutes
shouldShowNotificationAtBounds(quietHours, clock) ==
    IF ~quietHours.enabled THEN TRUE
    ELSE LET currentTime == CurrentTime(clock)
             startTime == parseInt(ReplaceColon(quietHours.start))
             endTime == parseInt(ReplaceColon(quietHours.end))
         IN  IF Gt(startTime, endTime)
             THEN Le(currentTime, startTime) /\ Ge(currentTime, endTime)
             ELSE Le(currentTime, startTime) \/ Ge(currentTime, endTime)

\* NotificationManager.shouldShowNotification() with settings.quietHours
shouldShowNotification(quietHours, clock) ==
    IF ~quietHours.enabled THEN TRUE
    ELSE LET currentTime == CurrentTime(clock)
             startTime == parseInt(ReplaceColon(quietHours.start))
             endTime == parseInt(ReplaceColon(quietHours.end))
         IN  IF Gt(startTime, endTime)
             THEN Lt(currentTime, startTime) /\ Gt(currentTime, endTime)
             ELSE Lt(currentTime, startTime) \/ Gt(currentTime, endTime)

\* values of the two time inputs: times of day, and the empty string of a
\* cleared input
TimeInputs ==
    { TimeString(0, 0), TimeString(8, 0), TimeString(8, 1), TimeString(22, 0),
      TimeString(23, 59), <<>> }

IsTime(str) == Len(str) = 5 /\ parseInt(ReplaceColon(str)) # NaN

Clocks == { [h |-> h, m |-> m] : h \in {0, 7, 8, 21, 22, 23}, m \in {0, 1, 58, 59} }

\* one minute later
NextMinute(clock) ==
    IF clock.m < 59 THEN [clock EXCEPT !.m = clock.m + 1]
    ELSE [h |-> (clock.h + 1) % 24, m |-> 0]

InitQuiet ==
    /\ SettingsScreenIdle
    /\ notif \in { [quietHours |-> [enabled |-> en, start |-> st, end |-> e],
                    clock |-> c, steps |-> 0, checked |-> FALSE,
                    shouldShow |-> FALSE, isQuiet |-> FALSE] :
                     en \in BOOLEAN, st \in TimeInputs, e \in TimeInputs,
                     c \in Clocks }

\* both functions are evaluated at the current minute
QuietHoursCheck ==
    /\ ~notif.checked
    /\ notif' = [notif EXCEPT
                   !.checked = TRUE,
                   !.shouldShow = shouldShowNotification(notif.quietHours,
                                                         notif.clock),
                   !.isQuiet = isQuietHours(notif.quietHours, notif.clock)]
    /\ UNCHANGED nonNotifVars

\* a minute passes
ClockMinute ==
    /\ notif.steps < MaxClockSteps
    /\ notif' = [notif EXCEPT !.clock = NextMinute(notif.clock),
                              !.steps = notif.steps + 1,
                              !.checked = FALSE]
    /\ UNCHANGED nonNotifVars

NextQuiet == QuietHoursCheck \/ ClockMinute
SpecQuiet == InitQuiet /\ [][NextQuiet]_vars

\* ------------------------------------------------------------------------
\* NotificationManager (on the settings screen) and NotificationService
\* ------------------------------------------------------------------------
MaxNotifyOps == 5   \* operations and timer firings of a run

Frequencies == {"hourly", "2hours"}

\* useState initial value of settings.quietHours
DefaultQuietHours ==
    [enabled |-> TRUE, start |-> TimeString(22, 0), end |-> TimeString(8, 0)]

\* wall-clock times at which a reminder interval fires
ReminderClocks == { [h |-> 7, m |-> 59], [h |-> 8, m |-> 1], [h |-> 23, m |-> 0] }

NoSettings == [present |-> FALSE, enabled |-> FALSE, frequency |-> "2hours"]

\* localStorage.setItem('aora-notification-settings', JSON.stringify(settings))
StoredSettings(n) ==
    [present |-> TRUE, enabled |-> n.enabled, frequency |-> n.frequency]

\* clearScheduledNotifications: clearInterval of the id stored under
\* 'aora-notification-interval' and the key removed (0: no key).  Timeouts
\* and intervals share one pool of ids, so a stored id left by an earlier
\* page load clears whichever timer of this page has that id.
clearScheduledNotifications(n) ==
    IF n.storedInterval # 0
    THEN [n EXCEPT !.intervals = n.intervals \ {n.storedInterval},
                   !.pending = n.pending \ {n.storedInterval},
                   !.storedInterval = 0]
    ELSE n

\* scheduleNotifications that does not clear the interval scheduled before
scheduleNotificationsOnTop(n) ==
    [n EXCEPT !.intervals = n.intervals \cup {n.nextId},
              !.storedInterval = n.nextId,
              !.nextId = n.nextId + 1]

\* scheduleNotifications: clearScheduledNotifications(), setInterval, and
\* the new id stored
scheduleNotifications(n) ==
    LET c == clearScheduledNotifications(n)
    IN  [c EXCEPT !.intervals = c.intervals \cup {c.nextId},
                  !.storedInterval = c.nextId,
                  !.nextId = c.nextId + 1]

\* the settings effect scheduling whenever reminders are enabled
SettingsEffectAnyPermission(n) ==
    LET saved == [n EXCEPT !.saved = StoredSettings(n)]
    IN  IF n.enabled
        THEN scheduleNotifications(saved)
        ELSE clearScheduledNotifications(saved)

\* the effect on [settings, permission]: save the settings, then schedule or
\* clear
SettingsEffect(n) ==
    LET saved == [n EXCEPT !.saved = StoredSettings(n)]
    IN  IF n.enabled /\ n.permission = "granted"
        THEN scheduleNotifications(saved)
        ELSE clearScheduledNotifications(saved)

\* `new Notification(...)` displays something only with the browser's
\* permission
Notify(n) ==
    IF n.browser = "granted" THEN [n EXCEPT !.shown = n.shown + 1] ELSE n

\* one operation of the run is spent
Spend(n) == [n EXCEPT !.opsLeft = n.opsLeft - 1]

\* The settings screen renders <NotificationManager />: useState defaults,
\* then the load effect (which reads the permission and the saved settings)
\* and the settings effect with the defaults, then the effect again for the
\* loaded values.
ManagerMount ==
    /\ ~notif.mounted
    /\ notif.opsLeft > 0
    /\ LET loaded == notif.saved
           first == SettingsEffect([notif EXCEPT !.mounted = TRUE,
                                                 !.permission = "default",
                                                 !.enabled = FALSE,
                                                 !.frequency = "2hours"])
           again == [first EXCEPT
                       !.permission = notif.browser,
                       !.enabled = IF loaded.present THEN loaded.enabled
                                                     ELSE first.enabled,
                       !.frequency = IF loaded.present THEN loaded.frequency
                                                       ELSE first.frequency]
       IN  notif' = Spend(IF loaded.present \/ notif.browser # "default"
                          THEN SettingsEffect(again) ELSE first)
    /\ UNCHANGED nonNotifVars

\* Leaving the settings screen: no effect of the manager has a cleanup.
ManagerUnmount ==
    /\ notif.mounted
    /\ notif.opsLeft > 0
    /\ notif' = Spend([notif EXCEPT !.mounted = FALSE])
    /\ UNCHANGED nonNotifVars

\* The Enable Reminders switch (disabled when permission is denied):
\* handleToggleEnabled asks for the permission when it is missing and sets
\* settings.enabled.
handleToggleEnabled ==
    /\ notif.mounted
    /\ notif.opsLeft > 0
    /\ notif.permission # "denied"
    /\ LET enabled == ~notif.enabled
       IN  notif' = Spend(SettingsEffect(
                [notif EXCEPT !.enabled = enabled,
                              !.requesting =
                                  notif.requesting
                                  \/ (enabled /\ notif.permission # "granted")]))
    /\ UNCHANGED nonNotifVars

\* Allow Notifications (shown while permission is 'default'):
\* requestPermission awaits Notification.requestPermission()
requestPermission ==
    /\ notif.mounted
    /\ notif.opsLeft > 0
    /\ notif.permission = "default"
    /\ ~notif.requesting
    /\ notif' = Spend([notif EXCEPT !.requesting = TRUE])
    /\ UNCHANGED nonNotifVars

\* The browser answers the request: setPermission(result), which re-runs the
\* settings effect of a mounted manager, and the welcome notification when
\* the result is 'granted'.
PermissionAnswer ==
    /\ notif.requesting
    /\ notif.opsLeft > 0
    /\ \E answer \in {"granted", "denied", "default"} :
         LET result == IF notif.browser = "default" THEN answer
                                                    ELSE notif.browser
             n1 == [notif EXCEPT !.requesting = FALSE, !.browser = result]
             n2 == IF n1.mounted /\ n1.permission # result
                   THEN SettingsEffect([n1 EXCEPT !.permission = result])
                   ELSE n1
         IN  notif' = Spend(IF result = "granted" THEN Notify(n2) ELSE n2)
    /\ UNCHANGED nonNotifVars

\* The frequency select (shown while settings.enabled)
setFrequency ==
    /\ notif.mounted
    /\ notif.opsLeft > 0
    /\ notif.enabled
    /\ \E f \in Frequencies \ {notif.frequency} :
         notif' = Spend(SettingsEffect([notif EXCEPT !.frequency = f]))
    /\ UNCHANGED nonNotifVars

\* A reminder interval of the manager fires: showNotification when
\* shouldShowNotification(); the callback closed over permission 'granted'.
ReminderInterval ==
    /\ notif.intervals # {}
    /\ notif.opsLeft > 0
    /\ \E id \in notif.intervals, clock \in ReminderClocks :
         notif' = Spend(IF shouldShowNotification(DefaultQuietHours, clock)
                        THEN Notify(notif) ELSE notif)
    /\ UNCHANGED nonNotifVars

\* Test Notification (shown while permission is 'granted'): showNotification
TestNotification ==
    /\ notif.mounted
    /\ notif.opsLeft > 0
    /\ notif.permission = "granted"
    /\ notif' = Spend(Notify(notif))
    /\ UNCHANGED nonNotifVars

\* document.hidden changes
VisibilityChange ==
    /\ notif.opsLeft > 0
    /\ notif' = Spend([notif EXCEPT !.hidden = ~notif.hidden])
    /\ UNCHANGED nonNotifVars

\* clearAllReminders that empties the set without clearTimeout
clearAllRemindersSetOnly(n) == [n EXCEPT !.timeouts = {}]

\* NotificationService.clearAllReminders: clearTimeout of every id of
\* notificationTimeouts, then clear()
clearAllReminders(n) ==
    [n EXCEPT !.pending = n.pending \ n.timeouts, !.timeouts = {}]

\* scheduleNext(): window.setTimeout and notificationTimeouts.add(timeoutId)
scheduleNext(n) ==
    [n EXCEPT !.pending = n.pending \cup {n.nextId},
              !.timeouts = n.timeouts \cup {n.nextId},
              !.nextId = n.nextId + 1]

\* NotificationService.scheduleBreathingReminder(intervalMs)
scheduleBreathingReminder ==
    /\ notif.opsLeft > 0
    /\ notif' = Spend([scheduleNext(clearAllReminders(notif))
                          EXCEPT !.service = "scheduled"])
    /\ UNCHANGED nonNotifVars

\* NotificationService.clearAllReminders() called by a client
clearReminders ==
    /\ notif.opsLeft > 0
    /\ notif' = Spend([clearAllReminders(notif) EXCEPT !.service = "cleared"])
    /\ UNCHANGED nonNotifVars

\* A reminder timeout of the service fires: showBreathingReminder (only with
\* permission and only while the page is hidden), delete(timeoutId),
\* scheduleNext()
ReminderTimeout ==
    /\ notif.pending # {}
    /\ notif.opsLeft > 0
    /\ \E id \in notif.pending :
         LET n1 == IF notif.browser = "granted" /\ notif.hidden
                   THEN Notify(notif) ELSE notif
             n2 == [n1 EXCEPT !.pending = n1.pending \ {id},
                              !.timeouts = n1.timeouts \ {id},
                              !.fired = n1.fired + 1]
         IN  notif' = Spend(scheduleNext(n2))
    /\ UNCHANGED nonNotifVars

\* A page load: the browser's permission, the settings and the interval id a
\* previous page load may have left in localStorage, the manager not rendered
InitNotify ==
    /\ SettingsScreenIdle
    /\ notif \in { [mounted |-> FALSE, permission |-> "default",
                    browser |-> b, requesting |-> FALSE,
                    enabled |-> FALSE, frequency |-> "2hours",
                    saved |-> sv, storedInterval |-> si, intervals |-> {},
                    nextId |-> 1, timeouts |-> {}, pending |-> {},
                    service |-> "idle", hidden |-> FALSE, shown |-> 0,
                    fired |-> 0, opsLeft |-> MaxNotifyOps] :
                     b \in {"default", "granted", "denied"},
                     sv \in {NoSettings,
                             [present |-> TRUE, enabled |-> TRUE,
                              frequency |-> "hourly"],
                             [present |-> TRUE, enabled |-> FALSE,
                              frequency |-> "2hours"]},
                     si \in {0, 1} }

NextNotify ==
    \/ ManagerMount
    \/ ManagerUnmount
    \/ handleToggleEnabled
    \/ requestPermission
    \/ PermissionAnswer
    \/ setFrequency
    \/ ReminderInterval
    \/ TestNotification
    \/ VisibilityChange
    \/ scheduleBreathingReminder
    \/ clearReminders
    \/ ReminderTimeout

SpecNotify == InitNotify /\ [][NextNotify]_vars

\* ------------------------------------------------------------------------
\* Properties
\* ------------------------------------------------------------------------

\* C1: while the session is paused, no timer callback changes currentPhase,
\* timeRemaining or cycles.
PausedProgressFrozen ==
    [][(~isActive /\ ~isActive') =>
          UNCHANGED <<currentPhase, timeRemaining, cycles>>]_vars

\* C2: the elapsed session time, on screen and in the summary handed to
\* onExit, is the whole seconds spent with isActive = true.
ElapsedCountsRunningTime ==
    /\ sessionDuration = activeMs \div 1000
    /\ sessionData # NoData => sessionData.duration = activeMs \div 1000

\* C3: every D = inhale+hold+exhale+pause of running time adds exactly one
\* cycle and brings the session back to inhale with the full inhale duration
\* remaining.
CyclePerPeriod ==
    mountedAt >= 0 =>
        /\ cycles = activeMs \div CycleMs(pattern)
        /\ (isActive /\ activeMs % CycleMs(pattern) = 0) =>
              (currentPhase = "inhale" /\ timeRemaining = pattern.inhale)

\* the phase after ph, in the cyclic order, whose duration is not zero
RECURSIVE NextRunning(_, _, _)
NextRunning(pat, k, left) ==
    LET n == (k % 4) + 1
    IN  IF left = 0 \/ pat[PhaseOrder[n]] > 0 THEN PhaseOrder[n]
        ELSE NextRunning(pat, n, left - 1)

\* C4: currentPhase changes only to the next phase of non-zero duration in
\* the order inhale, hold, exhale, pause, inhale, and cycles grows, by one,
\* only where the phase wraps to inhale.
PhaseOrderKept ==
    [][/\ currentPhase' # currentPhase =>
             currentPhase' = NextRunning(pattern, PhaseIndex(currentPhase), 4)
       /\ cycles' # cycles =>
             /\ cycles' = cycles + 1
             /\ currentPhase' = "inhale"
             /\ NextRunning(pattern, PhaseIndex(currentPhase), 4) = "inhale"]_vars

\* no phase on screen and no phase with a countdown has duration zero
NoZeroPhase ==
    /\ pattern # NoPattern => pattern[currentPhase] > 0
    /\ \A k \in 1..Len(chains) : pattern[chains[k].phase] > 0

\* C5: a phase of duration zero is skipped without spending time in it:
\* currentPhase is never such a phase, no countdown runs for one, and when a
\* running session counts a cycle the next inhale starts in the same step.
ZeroPhaseSkipped ==
    [][/\ NoZeroPhase'
       /\ (isActive /\ cycles' > cycles) =>
             \E k \in 1..Len(chains') :
                 chains'[k].phase = "inhale" /\ chains'[k].ticks = 0]_vars

\* a cycle of a pattern without hold and without pause has been run and the
\* next one has reached exhale
ZeroPhaseSkippedWitness ==
    /\ currentScreen = "session"
    /\ pattern.hold = 0 /\ pattern.pause = 0
    /\ cycles = 1 /\ currentPhase = "exhale" /\ togglesLeft = MaxToggles

\* C6: when cycles reaches totalCycles the summary is handed to onExit
\* without user action, and cycles never exceeds totalCycles.
CompletesAtTarget ==
    /\ cycles >= totalCycles => sessionData # NoData
    /\ cycles <= totalCycles

\* C7: the session entered by Resume starts with the progress of the
\* snapshot it was resumed from.
ResumeRestoresProgress ==
    (resumedFrom # NoSnapshot /\ currentScreen = "session" /\ mountedAt = now) =>
        /\ currentPhase = resumedFrom.progress.currentPhase
        /\ timeRemaining = resumedFrom.progress.phaseTimeRemaining
        /\ cycles = resumedFrom.progress.cyclesCompleted
        /\ sessionDuration = resumedFrom.progress.timeElapsed

\* the start-up check has run to its end and the user has not answered yet
StartupSettled ==
    /\ onboardingCompleted
    /\ appPc = "done"
    /\ showSavedSessionPrompt => promptPc = "checked"
    /\ promptPc # "closed"

\* C8: after the start-up check of a parseable snapshot, the resume offer is
\* on screen exactly if the snapshot's age, at the clock reading of the check
\* that decided, is below 24 hours.
OfferIffFresh ==
    (StartupSettled /\ IsSnapshot(bootStore)) =>
        (Offered <=> lastCheckNow - bootStore.timestamp < 24 * 3600000)

\* a snapshot of age 24 h - 1 ms is offered
OfferIffFreshWitness ==
    /\ StartupSettled /\ IsSnapshot(bootStore)
    /\ Offered
    /\ lastCheckNow - bootStore.timestamp = 24 * 3600000 - 1

\* C9: after the start-up check, a snapshot of age 24 hours or more is gone
\* from the store.
StaleSnapshotDeleted ==
    (/\ StartupSettled /\ IsSnapshot(bootStore)
     /\ lastCheckNow - bootStore.timestamp >= 24 * 3600000) =>
        store = NoSnapshot

\* C10: the summary handed to onExit carries the cycle count and the whole
\* seconds elapsed since the session started (counting either all of the time
\* or the time not spent paused), whether the exit came while running or
\* while paused.
ExitSummaryFromProgress ==
    sessionData # NoData =>
        /\ sessionData.cycles = cycles
        /\ \/ sessionData.duration = (now - mountedAt) \div 1000
           \/ sessionData.duration = activeMs \div 1000

\* C14: at most one runCycle chain (countdown interval and phase timeout) is
\* alive at any time.
SingleChain == Len(chains) <= 1

\* C17: the step that starts a session (the first effects of a rendered
\* SessionScreen) leaves it running in the inhale phase with timeRemaining =
\* the pattern's inhale duration, 0 elapsed seconds and 0 cycles.
StartsAtInhale ==
    [][(life = "rendered" /\ life' = "mounted") =>
          /\ isActive'
          /\ currentPhase' = "inhale"
          /\ timeRemaining' = pattern'.inhale
          /\ sessionDuration' = 0
          /\ cycles' = 0]_vars

\* a session that has just started
StartsAtInhaleWitness ==
    /\ life = "mounted"
    /\ now = mountedAt
    /\ isActive
    /\ Len(chains) = 1
    /\ chains[1].phase = "inhale"
    /\ chains[1].ticks = 0
    /\ timeRemaining = pattern.inhale
    /\ cycles = 0

\* C12: at any moment of a running session that has lasted one snapshot
\* interval, the store holds a snapshot written at most 5 s ago.
SnapshotEveryFiveSeconds ==
    (life = "mounted" /\ isActive /\ now - mountedAt >= AutoSaveMs) =>
        (IsSnapshot(store) /\ now - store.timestamp <= AutoSaveMs)

\* C11: once a session has exited, the store holds no saved-session snapshot:
\* no later event of that session writes the key again.
NoSnapshotAfterExit == exitedAt >= 0 => store = NoSnapshot

\* C13 (as stated): every hidden or unload event during a mounted session,
\* running or paused and in any cycle, leaves a snapshot of the current
\* progress in the store.
SaveOnEveryPageEvent ==
    [][(life = "mounted" /\ eventsLeft' < eventsLeft) =>
          /\ IsSnapshot(store')
          /\ store'.timestamp = now
          /\ store'.pattern = pattern
          /\ store'.progress.cyclesCompleted = cycles]_vars

\* C13 (amended): a hidden or unload event during a mounted session persists
\* a snapshot of the current progress when the session is running and has
\* completed at least one cycle; while it is paused or in its first cycle the
\* event leaves the store as it was.
SaveOnPageEventWhenRunning ==
    [][(life = "mounted" /\ eventsLeft' < eventsLeft) =>
          IF isActive /\ cycles > 0
          THEN /\ IsSnapshot(store')
               /\ store'.timestamp = now
               /\ store'.pattern = pattern
               /\ store'.duration = sessionDuration
               /\ store'.progress.cyclesCompleted = cycles
               /\ store'.progress.currentPhase = currentPhase
               /\ store'.progress.phaseTimeRemaining = timeRemaining
               /\ store'.progress.timeElapsed = sessionDuration
          ELSE store' = store]_vars

\* a page event has just stored the progress of a running session
SaveOnPageEventWitness ==
    /\ life \in {"mounted", "unloaded"}
    /\ exitedAt = -1
    /\ eventsLeft < MaxEvents
    /\ isActive
    /\ cycles > 0
    /\ IsSnapshot(store)
    /\ store.timestamp = now
    /\ store.progress.cyclesCompleted = cycles

\* C15: after the session has exited or its screen has been unmounted, no
\* timer of the session fires: a step in which time passes finds no
\* countdown chain alive and changes nothing of the session.
TimersStoppedAfterExit ==
    [][(life \in {"exiting", "unmounted"} /\ now' # now) =>
          /\ chains = <<>>
          /\ UNCHANGED <<currentPhase, timeRemaining, cycles, sessionDuration>>]_vars

\* C20: whichever action leaves the reflection screen, exactly one record of
\* the session's summary has been appended to the session history.
HistoryRecordOnLeave ==
    [][(currentScreen = "reflection" /\ currentScreen' = "home") =>
          /\ Len(history') = Len(history) + 1
          /\ history'[Len(history')].duration = sessionData.duration
          /\ history'[Len(history')].cycles = sessionData.cycles
          /\ history'[Len(history')].pattern = sessionData.pattern]_vars

\* C18: after the start-up check, a stored value that is not valid JSON or
\* has no timestamp is gone from the store and no resume offer is shown.
InvalidSnapshotDeleted ==
    (StartupSettled /\ bootStore \in {Corrupt, Untimed}) =>
        (store = NoSnapshot /\ ~Offered)

\* C19: discarding the resume offer deletes the snapshot from the store and
\* closes the offer, and leaves the current screen, the selected pattern, the
\* selected exercise and the session state as they were.
DismissOnlyDeletes ==
    [][(Offered /\ promptPc' = "closed" /\ resumedFrom' = resumedFrom) =>
          /\ store' = NoSnapshot
          /\ ~Offered'
          /\ UNCHANGED <<currentScreen, customPattern, selectedExercise,
                         sessionData, sessionVars>>]_vars

\* an offer discarded on the control screen with an exercise selected
DismissOnlyDeletesWitness ==
    /\ IsSnapshot(bootStore)
    /\ promptPc = "closed"
    /\ resumedFrom = NoSnapshot
    /\ store = NoSnapshot
    /\ currentScreen = "control"
    /\ selectedExercise \in LibraryExercises
    /\ life = "none"

\* C16: a pattern whose four durations are all zero never has a session: no
\* SessionScreen is created for it and no cycle is counted.
InvalidPatternRejected ==
    life # "none" => (CycleMs(pattern) > 0 /\ cycles = 0)

\* C21: a pause requested while the session is already paused changes
\* nothing: the session stays paused and its progress and timers are as
\* after the first request.
PauseIdempotent ==
    [][(life = "mounted" /\ ~isActive /\ togglesLeft' < togglesLeft) =>
          /\ ~isActive'
          /\ UNCHANGED <<currentPhase, timeRemaining, cycles, chains,
                         startTimeRef>>]_vars

\* C23: timeRemaining lies between 0 and the duration of the phase on
\* screen.
RemainingWithinPhase ==
    life = "mounted" =>
        (0 <= timeRemaining /\ timeRemaining <= pattern[currentPhase])

\* C24: the step that resumes a paused session changes only the paused
\* flag: phase, time remaining and cycles are those the session had on
\* pausing, and no phase is entered anew.
ResumeKeepsProgress ==
    [][(life = "mounted" /\ ~isActive /\ isActive') =>
          UNCHANGED <<currentPhase, timeRemaining, cycles>>]_vars

\* C27: once Resume has been chosen, the snapshot is gone from the store and
\* the prompt is hidden, so it is not offered again.
ResumeConsumesSnapshot ==
    resumedFrom # NoSnapshot =>
        /\ store = NoSnapshot
        /\ ~showSavedSessionPrompt
        /\ ~showPrompt
        /\ ~Offered

\* the session entered by Resume is running and the store is empty
ResumeConsumesSnapshotWitness ==
    /\ IsSnapshot(resumedFrom)
    /\ resumedFrom = bootStore
    /\ life = "mounted"
    /\ now > mountedAt
    /\ store = NoSnapshot

\* C25: every snapshot the session screen writes is taken while the session
\* is running with at least one completed cycle, and carries that cycle
\* count and totalCycles = 10; nothing is written in the first cycle or
\* while paused.
SnapshotsOnlyWhenRunning ==
    [][(store' # store /\ store' # NoSnapshot) =>
          /\ isActive
          /\ cycles >= 1
          /\ store'.progress.cyclesCompleted = cycles
          /\ store'.progress.totalCycles = 10]_vars

\* a snapshot written earlier in a session that is still on screen
SnapshotsOnlyWhenRunningWitness ==
    /\ life = "mounted"
    /\ IsSnapshot(store)
    /\ store.timestamp < now
    /\ store.timestamp > mountedAt
    /\ store.progress.cyclesCompleted >= 1
    /\ store.progress.totalCycles = 10

\* C26: a phase ends once, by whichever of its two timers fires first: the
\* phase on screen changes only to the next phase of the order and only when
\* the timers of the running phase are due, cycles grows by one only where
\* the order wraps to inhale, one chain stays alive, and the timeout of a
\* phase that has already ended changes nothing when it fires.
PhaseEndsOnce ==
    [][/\ Len(chains') <= 1
       /\ (currentPhase' # currentPhase \/ cycles' # cycles) =>
             /\ Len(chains) = 1
             /\ chains[1].phase = currentPhase
             /\ (chains[1].ticks + 1) * 100 >= pattern[currentPhase]
             /\ currentPhase' = NextRunning(pattern, PhaseIndex(currentPhase), 4)
       /\ cycles' # cycles =>
             /\ cycles' = cycles + 1
             /\ currentPhase' = "inhale"
       /\ staleTimeouts' < staleTimeouts =>
             UNCHANGED <<currentPhase, timeRemaining, cycles, chains>>]_vars

\* the countdown has ended a phase before its timeout, which is still
\* pending while the next phase runs, and a cycle has been completed
PhaseEndsOnceWitness ==
    /\ life = "mounted"
    /\ staleTimeouts >= 1
    /\ cycles >= 1
    /\ Len(chains) = 1
    /\ chains[1].ticks >= 1
    /\ chains[1].timeout

ReminderTimeoutsBounded ==
    /\ Cardinality(notif.timeouts) <= 1
    /\ Cardinality(notif.pending) <= 1
    /\ notif.pending \subseteq notif.timeouts
    /\ notif.service = "scheduled" => Cardinality(notif.timeouts) = 1
    /\ notif.service = "cleared" => notif.timeouts = {} /\ notif.pending = {}

\* reminders were cleared after a reminder timeout had fired and re-armed
ReminderTimeoutsBoundedWitness ==
    /\ notif.service = "cleared"
    /\ notif.fired >= 1
    /\ notif.timeouts = {}

\* C30: at most one reminder interval of the manager is alive at any time,
\* and one is alive only while reminders are enabled (in the saved settings,
\* and in the state of a rendered manager) and the notification permission
\* is granted, across settings changes, permission answers and
\* unmount/remount of the manager; the step that disables reminders leaves
\* no interval alive.
OneReminderInterval ==
    [][ /\ Cardinality(notif'.intervals) <= 1
        /\ notif'.intervals # {} =>
              /\ notif'.saved.enabled
              /\ notif'.browser = "granted"
              /\ notif'.storedInterval \in notif'.intervals
              /\ notif'.mounted =>
                    notif'.enabled /\ notif'.permission = "granted"
        /\ (notif.mounted /\ notif.enabled /\ notif'.mounted /\ ~notif'.enabled)
              => notif'.intervals = {} ]_vars

\* the interval was scheduled again at least once (a settings change or a
\* remount) and is still the only one alive after the manager unmounted
OneReminderIntervalWitness ==
    /\ ~notif.mounted
    /\ Cardinality(notif.intervals) = 1
    /\ notif.nextId >= 3
    /\ notif.timeouts = {}

\* C22: while the notification permission is not 'granted', no reminder or
\* other notification is shown and the manager schedules no reminder
\* interval (none is alive either); the notification code changes nothing
\* of the session or of the rest of the application.
NoNotificationWithoutPermission ==
    [][ /\ notif'.shown > notif.shown => notif'.browser = "granted"
        /\ notif'.intervals \ notif.intervals # {} =>
              notif'.permission = "granted" /\ notif'.browser = "granted"
        /\ notif'.browser # "granted" =>
              notif'.intervals = {} /\ notif'.shown = notif.shown
        /\ notif' # notif => UNCHANGED nonNotifVars ]_vars

\* permission denied, reminders enabled in a rendered manager, the page
\* hidden and a service reminder timeout fired: nothing shown, no interval
NoNotificationWithoutPermissionWitness ==
    /\ notif.browser = "denied"
    /\ notif.mounted /\ notif.enabled
    /\ notif.hidden /\ notif.fired >= 1
    /\ notif.shown = 0
    /\ notif.intervals = {}

====
